---- MODULE Spec2Model ----
(***************************************************************************)
(* A model of jinja2_sanic (src/jinja2_sanic/__init__.py): the environment *)
(* registry kept as attributes of the application, the context-processor   *)
(* middleware hook, render_string / render_template and the template(...)  *)
(* handler decorator.                                                      *)
(*                                                                         *)
(* Python values are records tagged by `kind`.  A mapping is a TLA+        *)
(* function whose domain is its key set.  The template engine and the web  *)
(* framework are outside the repository: an environment is the set of      *)
(* template names its loader resolves, a rendered text is the triple       *)
(* (environment, template name, context) it was rendered from.             *)
(***************************************************************************)
EXTENDS Integers, Sequences, FiniteSets, TLC

VARIABLES
    app,          \* the Sanic instance: its attributes and request_middleware
    setupKeys,    \* the app_key of each setup call, in call order: call i
                  \* creates, and returns, Environment instance i
    withProcessors, \* for each setup call, in call order: whether its
                  \* context_processors argument was non-empty
    itemsInCtx,   \* the framework's Request: TRUE when request[key] is kept in
                  \* request.ctx.__dict__, FALSE when items are kept apart
    requests,     \* the requests of the application
    call          \* the open direct call of setup / get_env / render_string /
                  \* render_template with its result, None when there is none

vars == <<app, setupKeys, withProcessors, itemsInCtx, requests, call>>

(***************************************************************************)
(* Bounds of the model.                                                    *)
(***************************************************************************)
MaxSetups == 2      \* setup calls made on the application
MaxProcs == 2       \* length of a context_processors sequence

(***************************************************************************)
(* Module constants, lines 14-16.                                          *)
(***************************************************************************)
APP_CONTEXT_PROCESSORS_KEY == "sanic_jinja2_context_processors"
APP_KEY == "sanic_jinja2_environment"
REQUEST_CONTEXT_KEY == "sanic_jinja2_context"

\* status_code of every ServerError the module raises (lines 83, 90, 95)
ServerErrorStatus == 500
\* default of the status parameter (lines 107, 133)
DefaultStatus == 200
\* default of the encoding parameter (lines 106, 132)
DefaultEncoding == "utf-8"

(***************************************************************************)
(* Python values.                                                          *)
(***************************************************************************)
EmptyMap == [k \in {} |-> 0]
None == [kind |-> "none"]
Mapping(m) == [kind |-> "mapping", map |-> m]
NotAMapping == [kind |-> "list"]

\* a keyword argument: left out by the caller, or given
Omitted == [given |-> FALSE]
Given(v) == [given |-> TRUE, value |-> v]
\* the parameter's value: the default of the signature unless given
KwArg(arg, default) == IF arg.given THEN arg.value ELSE default

\* isinstance(v, Mapping), line 92
IsMapping(v) == v.kind = "mapping"

\* a faulty merge: the per-request context wins a key both have
MergeCallerLoses(p, c) ==
    [k \in (DOMAIN p) \cup (DOMAIN c) |-> IF k \in DOMAIN p THEN p[k] ELSE c[k]]

\* dict(p, **c), line 98: every key of either, c's value where both have it
Merge(p, c) ==
    [k \in (DOMAIN p) \cup (DOMAIN c) |-> IF k \in DOMAIN c THEN c[k] ELSE p[k]]

\* a faulty update: a key d already holds keeps its value
UpdateKeepsExisting(d, m) ==
    [k \in (DOMAIN d) \cup (DOMAIN m) |-> IF k \in DOMAIN d THEN d[k] ELSE m[k]]

\* d.update(m), line 175: m's entries are written into d
Update(d, m) ==
    [k \in (DOMAIN d) \cup (DOMAIN m) |-> IF k \in DOMAIN m THEN m[k] ELSE d[k]]

(***************************************************************************)
(* Inputs.                                                                 *)
(***************************************************************************)
Requests == {1, 2}
AppKeys == {APP_KEY, "second_environment"}
AttrNames == AppKeys \cup {APP_CONTEXT_PROCESSORS_KEY}
TemplateNames == {"greet.html", "missing.html"}
\* the template names the loader given to jinja2.Environment(...) resolves
Loaders == {{}, {"greet.html"}}
\* the filters argument of setup: None or a mapping of filter names
FilterArgs == {None, [kind |-> "mapping", names |-> {"shout"}]}
AppKeyArgs == {Omitted, Given("second_environment")}
EncodingArgs == {Omitted, Given("latin-1")}
StatusArgs == {Omitted, Given(404)}
HeaderArgs == {Omitted, Given(Mapping("X-Frame-Options" :> 1))}
\* context mappings a caller or a handler supplies
CallerBZ == ("b" :> 9 @@ "z" :> 3)
CallerMaps == {EmptyMap, ("name" :> 5), CallerBZ}
ContextArgs == {Mapping(m) : m \in CallerMaps} \cup {None, NotAMapping}

\* context processors: async functions of a request
Procs == {"P1", "P2", "request_processor", "failing_processor"}
ProcSeqs == UNION {[1..n -> Procs] : n \in 0..MaxProcs}

ProcessorRaises(p) == p = "failing_processor"

\* request_processor, lines 181-184: {'request': request}
request_processor(r) == ("request" :> r)

\* the mappings the processors P1 and P2 return
P1Output == ("a" :> 1 @@ "b" :> 2)
P2Output == ("b" :> 3 @@ "c" :> 4)

\* the mapping a processor returns when awaited with request r, line 176
ProcessorOutput(p, r) ==
    CASE p = "P1" -> P1Output
      [] p = "P2" -> P2Output
      [] p = "request_processor" -> request_processor(r)
      [] OTHER -> EmptyMap

(***************************************************************************)
(* The application object: attributes by name, and request_middleware.     *)
(***************************************************************************)
Absent == [kind |-> "absent"]

\* hasattr(app, name), lines 42 and 47
hasattr(a, name) == a.attrs[name].kind # "absent"

\* setattr(app, name, value), lines 43 and 48
setattr(a, name, value) == [a EXCEPT !.attrs[name] = value]

\* jinja2.Environment(*args, **kwargs), line 35: instance number `id`
NewEnvironment(id, loader) ==
    [kind |-> "env", id |-> id, templates |-> loader, filters |-> {}, globals |-> {}]

\* lines 38-39: env.filters.update(filters) unless filters is None
WithFilters(env, filters) ==
    IF filters # None THEN [env EXCEPT !.filters = @ \cup filters.names] ELSE env

\* line 52: env.globals['app'] = app
WithAppGlobal(env) == [env EXCEPT !.globals = @ \cup {"app"}]

\* get_env, lines 57-65: getattr(app, app_key, None)
get_env(a, app_key) ==
    IF hasattr(a, app_key) THEN a.attrs[app_key] ELSE None

\* truth value of what get_env returned, line 80
Truthy(v) == v.kind \notin {"none", "absent"}

\* a faulty registration: the attribute is set whether or not it exists
RegisterEnvOverwrites(a, app_key, env) == setattr(a, app_key, env)

\* a faulty registration: one slot, the default key, whatever app_key is
RegisterEnvDefaultKey(a, app_key, env) ==
    IF ~hasattr(a, APP_KEY) THEN setattr(a, APP_KEY, env) ELSE a

\* lines 41-43: register the environment unless the attribute exists
RegisterEnv(a, app_key, env) ==
    IF ~hasattr(a, app_key) THEN setattr(a, app_key, env) ELSE a

\* a faulty installation: the hook is appended only by the call that stores
\* the sequence
InstallProcessorsOnce(a, context_processors) ==
    IF context_processors # <<>> /\ ~hasattr(a, APP_CONTEXT_PROCESSORS_KEY) THEN
        [setattr(a, APP_CONTEXT_PROCESSORS_KEY,
                 [kind |-> "processors", procs |-> context_processors])
            EXCEPT !.request_middleware =
                       Append(@, "context_processors_middleware")]
    ELSE a

\* a faulty installation: every setup call with processors stores its own
InstallProcessorsReplaces(a, context_processors) ==
    IF context_processors # <<>> THEN
        [setattr(a, APP_CONTEXT_PROCESSORS_KEY,
                 [kind |-> "processors", procs |-> context_processors])
            EXCEPT !.request_middleware =
                       Append(@, "context_processors_middleware")]
    ELSE a

\* a faulty installation: the sequence is stored and the hook appended even
\* when the sequence is empty
InstallProcessorsAlways(a, context_processors) ==
    LET stored == IF ~hasattr(a, APP_CONTEXT_PROCESSORS_KEY)
                  THEN setattr(a, APP_CONTEXT_PROCESSORS_KEY,
                               [kind |-> "processors", procs |-> context_processors])
                  ELSE a
    IN [stored EXCEPT !.request_middleware =
                          Append(@, "context_processors_middleware")]

\* lines 45-50: store the processors once, append the hook every time
InstallProcessors(a, context_processors) ==
    IF context_processors # <<>> THEN
        LET stored == IF ~hasattr(a, APP_CONTEXT_PROCESSORS_KEY)
                      THEN setattr(a, APP_CONTEXT_PROCESSORS_KEY,
                                   [kind |-> "processors", procs |-> context_processors])
                      ELSE a
        IN [stored EXCEPT !.request_middleware =
                              Append(@, "context_processors_middleware")]
    ELSE a

\* lines 35-39, 52, 54: the environment a setup call creates and returns.
\* The environment is one object: the globals entry of line 52 is seen
\* through the attribute set at line 43.
SetupEnv(id, loader, filters) ==
    WithAppGlobal(WithFilters(NewEnvironment(id, loader), filters))

\* setup, lines 23-54, as a function of the application
setup(a, id, app_key, context_processors, loader, filters) ==
    InstallProcessors(RegisterEnv(a, app_key, SetupEnv(id, loader, filters)),
                      context_processors)

(***************************************************************************)
(* The request object.  The hook addresses the per-request context as the  *)
(* item request[REQUEST_CONTEXT_KEY] (lines 173, 175), render_string as    *)
(* request.ctx.__dict__[REQUEST_CONTEXT_KEY] (line 98).  Whether the two   *)
(* are one place is decided by the framework's Request class: itemsInCtx.  *)
(***************************************************************************)
NoStore == [present |-> FALSE, map |-> EmptyMap]
Store(m) == [present |-> TRUE, map |-> m]

\* request[REQUEST_CONTEXT_KEY] = value, line 173
SetItem(req, value) ==
    IF itemsInCtx THEN [req EXCEPT !.ctx = Store(value)]
                  ELSE [req EXCEPT !.item = Store(value)]

\* request[REQUEST_CONTEXT_KEY], line 175
GetItem(req) == IF itemsInCtx THEN req.ctx ELSE req.item

\* request.ctx.__dict__, line 98
GetCtx(req) == req.ctx

NoResult == [kind |-> "none"]

NewRequest ==
    [phase |-> "idle", mw |-> 0, pc |-> "none", procs |-> <<>>, idx |-> 0,
     invoked |-> <<>>, item |-> NoStore, ctx |-> NoStore,
     args |-> <<>>, kwargs |-> EmptyMap, called |-> None, handed |-> None,
     route |-> None, returned |-> None, result |-> NoResult]

(***************************************************************************)
(* Rendering.                                                              *)
(***************************************************************************)
\* sanic.exceptions.ServerError(message, status_code=...); `about` is the
\* value formatted into the message
ServerError(message, about, status_code) ==
    [kind |-> "ServerError", message |-> message, about |-> about,
     status_code |-> status_code]

\* template.render(context), line 101: the engine's text for this template
\* of this environment with this context
TemplateRender(env, template_name, context) ==
    [kind |-> "text", env |-> env.id, template |-> template_name,
     context |-> context]

\* a faulty lookup: the TemplateNotFound of the engine is not caught
TemplateNeverMissing(env, template_name) == FALSE

\* env.get_template(template_name) raises jinja2.TemplateNotFound, lines 85-87
TemplateMissing(env, template_name) == template_name \notin env.templates

\* lines 97-100: the per-request context merged under the caller's context;
\* a KeyError (no per-request context on request.ctx) leaves context as it is
EffectiveContext(req, context) ==
    IF GetCtx(req).present THEN Merge(GetCtx(req).map, context.map)
    ELSE context.map

\* a faulty render_string: the context is validated before the environment
\* and the template are looked up
render_string_validates_first(template_name, req, context, app_key) ==
    LET env == get_env(app, KwArg(app_key, APP_KEY)) IN
    IF ~IsMapping(context) THEN
        ServerError("context should be mapping, not {}", context.kind,
                    ServerErrorStatus)
    ELSE IF ~Truthy(env) THEN
        ServerError("Template engine has not been initialized yet.", "",
                    ServerErrorStatus)
    ELSE IF TemplateMissing(env, template_name) THEN
        ServerError("Template '{}' not found", template_name, ServerErrorStatus)
    ELSE TemplateRender(env, template_name, EffectiveContext(req, context))

\* a faulty render_string: a context that is no mapping renders as an empty one
render_string_skips_validation(template_name, req, context, app_key) ==
    LET env == get_env(app, KwArg(app_key, APP_KEY)) IN
    IF ~Truthy(env) THEN
        ServerError("Template engine has not been initialized yet.", "",
                    ServerErrorStatus)
    ELSE IF TemplateMissing(env, template_name) THEN
        ServerError("Template '{}' not found", template_name, ServerErrorStatus)
    ELSE TemplateRender(env, template_name,
                        EffectiveContext(req, IF IsMapping(context) THEN context
                                              ELSE Mapping(EmptyMap)))

\* a faulty render_string: the KeyError of a request without a per-request
\* context is not caught
render_string_raises_KeyError(template_name, req, context, app_key) ==
    LET env == get_env(app, KwArg(app_key, APP_KEY)) IN
    IF ~Truthy(env) THEN
        ServerError("Template engine has not been initialized yet.", "",
                    ServerErrorStatus)
    ELSE IF TemplateMissing(env, template_name) THEN
        ServerError("Template '{}' not found", template_name, ServerErrorStatus)
    ELSE IF ~IsMapping(context) THEN
        ServerError("context should be mapping, not {}", context.kind,
                    ServerErrorStatus)
    ELSE IF ~GetCtx(req).present THEN
        [kind |-> "KeyError", about |-> REQUEST_CONTEXT_KEY]
    ELSE TemplateRender(env, template_name, EffectiveContext(req, context))

\* render_string, lines 68-102
render_string(template_name, req, context, app_key) ==
    LET env == get_env(app, KwArg(app_key, APP_KEY)) IN
    IF ~Truthy(env) THEN
        ServerError("Template engine has not been initialized yet.", "",
                    ServerErrorStatus)
    ELSE IF TemplateMissing(env, template_name) THEN
        ServerError("Template '{}' not found", template_name, ServerErrorStatus)
    ELSE IF ~IsMapping(context) THEN
        ServerError("context should be mapping, not {}", context.kind,
                    ServerErrorStatus)
    ELSE TemplateRender(env, template_name, EffectiveContext(req, context))

\* sanic.response.HTTPResponse(body, status=, headers=, content_type=)
HTTPResponse(body, status, headers, content_type) ==
    [kind |-> "HTTPResponse", body |-> body, status |-> status,
     headers |-> headers, content_type |-> content_type]

\* "text/html; charset={encoding}".format(encoding=encoding), line 124
ContentType(encoding) == <<"text/html; charset=", encoding>>

\* a faulty render_template: status and headers are not handed on
render_template_drops_status(template_name, req, context, app_key, encoding, headers, status) ==
    LET ctx == IF context = None THEN Mapping(EmptyMap) ELSE context
        text == render_string(template_name, req, ctx,
                             Given(KwArg(app_key, APP_KEY)))
    IN IF text.kind = "ServerError" THEN text
       ELSE HTTPResponse(text, DefaultStatus, None,
                         ContentType(KwArg(encoding, DefaultEncoding)))

\* render_template, lines 105-129; an error of render_string propagates
render_template(template_name, req, context, app_key, encoding, headers, status) ==
    LET ctx == IF context = None THEN Mapping(EmptyMap) ELSE context
        text == render_string(template_name, req, ctx,
                             Given(KwArg(app_key, APP_KEY)))
    IN IF text.kind = "ServerError" THEN text
       ELSE HTTPResponse(text, KwArg(status, DefaultStatus), KwArg(headers, None),
                         ContentType(KwArg(encoding, DefaultEncoding)))

(***************************************************************************)
(* The decorator template(...), lines 132-169.                             *)
(***************************************************************************)
\* template(template_name, app_key=..., encoding=..., headers=..., status=...),
\* lines 132-133: the parameters the closure wrapped is built over
template(template_name, app_key, encoding, headers, status) ==
    [template_name |-> template_name,
     app_key |-> KwArg(app_key, APP_KEY),
     encoding |-> KwArg(encoding, DefaultEncoding),
     headers |-> KwArg(headers, None),
     status |-> KwArg(status, DefaultStatus)]

Routes ==
    {template(t, k, e, h, s) : t \in TemplateNames, k \in AppKeyArgs,
                               e \in EncodingArgs, h \in HeaderArgs,
                               s \in StatusArgs}

\* positional arguments of the handler: a function handler gets the request,
\* a method of a class-based view gets the view and the request
View == [kind |-> "HTTPMethodView"]
RequestArg(r) == [kind |-> "Request", id |-> r]
HandlerArgs(r) == {<<RequestArg(r)>>, <<View, RequestArg(r)>>}
\* keyword arguments of the handler: the parameters of the route
HandlerKwargs == {EmptyMap, ("name" :> 5)}

\* a response the handler built itself
HandlerResponse ==
    HTTPResponse([kind |-> "text", literal |-> "built by the handler"],
                 404, None, <<"text/plain">>)
ReturnValues == ContextArgs \cup {HandlerResponse}

\* a faulty choice: the first positional argument whatever it is
RequestOfFirst(args) == args[1]

\* lines 160-163: which positional argument is the request
RequestOf(args) ==
    IF args[1].kind = "HTTPMethodView" THEN args[2] ELSE args[1]

\* lines 165-166: render_template with the chosen argument as its request;
\* an argument that is no request has no `app` (line 79)
RenderFor(rt, request, context) ==
    IF request.kind # "Request"
    THEN [kind |-> "AttributeError", about |-> request.kind]
    ELSE render_template(rt.template_name, requests[request.id], context,
                        Given(rt.app_key), Given(rt.encoding), Omitted, Omitted)

\* a faulty wrapped: whatever the handler returned is rendered
wrapped_always_renders(rt, args, context) ==
    RenderFor(rt, RequestOf(args), context)

\* lines 157-166: what wrapped returns (or raises) once the handler has
\* returned `context`
wrapped(rt, args, context) ==
    IF context.kind = "HTTPResponse" THEN context
    ELSE RenderFor(rt, RequestOf(args), context)

(***************************************************************************)
(* Steps.  One task per request; a task is suspended only at an await      *)
(* (lines 155 and 176).  render_string and render_template are synchronous:*)
(* while a direct call of one is open (call # None) nothing else runs.     *)
(***************************************************************************)
\* setup(app, loader, app_key=..., context_processors=..., filters=...),
\* called by start-up code, before the application takes up requests
SetupCall(app_key, context_processors, loader, filters) ==
    /\ call = None
    /\ Len(setupKeys) < MaxSetups
    /\ \A r \in Requests : requests[r].phase = "idle"
    /\ app' = setup(app, Len(setupKeys) + 1, app_key, context_processors,
                       loader, filters)
    /\ setupKeys' = Append(setupKeys, app_key)
    /\ withProcessors' = Append(withProcessors, context_processors # <<>>)
    /\ call' = [op |-> "setup", app_key |-> app_key,
                context_processors |-> context_processors,
                result |-> SetupEnv(Len(setupKeys) + 1, loader, filters)]
    /\ UNCHANGED <<itemsInCtx, requests>>

\* the framework takes up a request: it runs app.request_middleware in order
StartRequest(r) ==
    /\ call = None
    /\ requests[r].phase = "idle"
    /\ requests' = [requests EXCEPT ![r].phase = "middleware", ![r].mw = 1]
    /\ UNCHANGED <<app, setupKeys, withProcessors, itemsInCtx, call>>

\* a faulty hook: the per-request context of an earlier run is kept
HookEnterKeepsContext(r) ==
    /\ call = None
    /\ requests[r].phase = "middleware"
    /\ requests[r].pc = "none"
    /\ requests[r].mw <= Len(app.request_middleware)
    /\ requests' = [requests EXCEPT ![r] =
           [SetItem(@, GetItem(@).map) EXCEPT
               !.pc = "loop",
               !.procs = app.attrs[APP_CONTEXT_PROCESSORS_KEY].procs,
               !.idx = 1,
               !.invoked = <<>>]]
    /\ UNCHANGED <<app, setupKeys, withProcessors, itemsInCtx, call>>

\* context_processors_middleware is entered, lines 173-174: a fresh empty
\* per-request context, and the iteration over the stored processors begins
HookEnter(r) ==
    /\ call = None
    /\ requests[r].phase = "middleware"
    /\ requests[r].pc = "none"
    /\ requests[r].mw <= Len(app.request_middleware)
    /\ requests' = [requests EXCEPT ![r] =
           [SetItem(@, EmptyMap) EXCEPT
               !.pc = "loop",
               !.procs = app.attrs[APP_CONTEXT_PROCESSORS_KEY].procs,
               !.idx = 1,
               !.invoked = <<>>]]
    /\ UNCHANGED <<app, setupKeys, withProcessors, itemsInCtx, call>>

\* line 176: the next processor is called with the request and awaited
ProcessorInvoke(r) ==
    /\ call = None
    /\ requests[r].pc = "loop"
    /\ requests[r].idx <= Len(requests[r].procs)
    /\ requests' = [requests EXCEPT
           ![r].pc = "awaiting",
           ![r].invoked = Append(@, [processor |-> requests[r].procs[requests[r].idx],
                                     args |-> <<RequestArg(r)>>])]
    /\ UNCHANGED <<app, setupKeys, withProcessors, itemsInCtx, call>>

\* a faulty hook: after a processor has returned the loop skips the next one
ProcessorReturnSkipsNext(r) ==
    /\ call = None
    /\ requests[r].pc = "awaiting"
    /\ ~ProcessorRaises(requests[r].procs[requests[r].idx])
    /\ LET req == requests[r]
           out == ProcessorOutput(req.procs[req.idx], r)
       IN requests' = [requests EXCEPT ![r] =
              [SetItem(req, Update(GetItem(req).map, out)) EXCEPT
                  !.pc = "loop", !.idx = req.idx + 2]]
    /\ UNCHANGED <<app, setupKeys, withProcessors, itemsInCtx, call>>

\* a faulty hook: one context store shared by the requests in flight, the
\* returned mapping is written into the context of every request that has one
ProcessorReturnShared(r) ==
    /\ call = None
    /\ requests[r].pc = "awaiting"
    /\ ~ProcessorRaises(requests[r].procs[requests[r].idx])
    /\ LET out == ProcessorOutput(requests[r].procs[requests[r].idx], r)
       IN requests' = [q \in Requests |->
              LET req == requests[q]
                  written == IF GetItem(req).present
                             THEN SetItem(req, Update(GetItem(req).map, out))
                             ELSE req
              IN IF q = r THEN [written EXCEPT !.pc = "loop", !.idx = req.idx + 1]
                 ELSE written]
    /\ UNCHANGED <<app, setupKeys, withProcessors, itemsInCtx, call>>

\* lines 175-177: the awaited processor returned; its mapping is written
\* into the per-request context
ProcessorReturn(r) ==
    /\ call = None
    /\ requests[r].pc = "awaiting"
    /\ ~ProcessorRaises(requests[r].procs[requests[r].idx])
    /\ LET req == requests[r]
           out == ProcessorOutput(req.procs[req.idx], r)
       IN requests' = [requests EXCEPT ![r] =
              [SetItem(req, Update(GetItem(req).map, out)) EXCEPT
                  !.pc = "loop", !.idx = req.idx + 1]]
    /\ UNCHANGED <<app, setupKeys, withProcessors, itemsInCtx, call>>

\* a faulty hook: the exception of a processor is swallowed and the loop
\* goes on to the next processor
ProcessorFailSwallowed(r) ==
    /\ call = None
    /\ requests[r].pc = "awaiting"
    /\ ProcessorRaises(requests[r].procs[requests[r].idx])
    /\ requests' = [requests EXCEPT ![r].pc = "loop", ![r].idx = @ + 1]
    /\ UNCHANGED <<app, setupKeys, withProcessors, itemsInCtx, call>>

\* line 176: the awaited processor raised; the exception leaves the hook and
\* the framework ends the request with it
ProcessorFail(r) ==
    /\ call = None
    /\ requests[r].pc = "awaiting"
    /\ ProcessorRaises(requests[r].procs[requests[r].idx])
    /\ requests' = [requests EXCEPT
           ![r].pc = "none", ![r].procs = <<>>, ![r].idx = 0,
           ![r].phase = "failed",
           ![r].result = [kind |-> "ProcessorError",
                          processor |-> requests[r].procs[requests[r].idx]]]
    /\ UNCHANGED <<app, setupKeys, withProcessors, itemsInCtx, call>>

\* line 178: the loop is over, the hook returns None and the framework goes
\* on to the next middleware
HookReturn(r) ==
    /\ call = None
    /\ requests[r].pc = "loop"
    /\ requests[r].idx > Len(requests[r].procs)
    /\ requests' = [requests EXCEPT
           ![r].pc = "none", ![r].procs = <<>>, ![r].idx = 0, ![r].mw = @ + 1]
    /\ UNCHANGED <<app, setupKeys, withProcessors, itemsInCtx, call>>

\* every request middleware has returned None: the framework calls the
\* decorated handler, which calls the wrapped function and awaits it, line 155
HandlerInvoke(r, rt, args, kwargs) ==
    /\ call = None
    /\ requests[r].phase = "middleware"
    /\ requests[r].pc = "none"
    /\ requests[r].mw > Len(app.request_middleware)
    /\ requests' = [requests EXCEPT
           ![r].phase = "handler", ![r].route = rt,
           ![r].args = args, ![r].kwargs = kwargs,
           ![r].called = [args |-> args, kwargs |-> kwargs]]
    /\ UNCHANGED <<app, setupKeys, withProcessors, itemsInCtx, call>>

\* lines 155-166: the handler returned `context`; wrapped returns a response
\* or raises
HandlerReturn(r, context) ==
    /\ call = None
    /\ requests[r].phase = "handler"
    /\ LET res == wrapped(requests[r].route, requests[r].args, context)
       IN requests' = [requests EXCEPT
              ![r].phase = IF res.kind = "HTTPResponse" THEN "responded"
                           ELSE "failed",
              ![r].returned = context,
              ![r].handed = IF context.kind = "HTTPResponse" THEN None
                            ELSE RequestOf(requests[r].args),
              ![r].result = res]
    /\ UNCHANGED <<app, setupKeys, withProcessors, itemsInCtx, call>>

\* context_processors_middleware, lines 172-178, step by step
context_processors_middleware(r) ==
    \/ HookEnter(r)
    \/ ProcessorInvoke(r)
    \/ ProcessorReturn(r)
    \/ ProcessorFail(r)
    \/ HookReturn(r)

\* a direct call render_string(template_name, request, context, app_key=...)
RenderStringCall(r, template_name, context, app_key) ==
    /\ call = None
    /\ call' = [op |-> "render_string", request |-> r,
                template_name |-> template_name, context |-> context,
                app_key |-> KwArg(app_key, APP_KEY),
                result |-> render_string(template_name, requests[r], context,
                                        app_key)]
    /\ UNCHANGED <<app, setupKeys, withProcessors, itemsInCtx, requests>>

\* a direct call render_template(template_name, request, context, app_key=...,
\* encoding=..., headers=..., status=...)
RenderTemplateCall(r, template_name, context, app_key, encoding, headers, status) ==
    /\ call = None
    /\ call' = [op |-> "render_template", request |-> r,
                template_name |-> template_name, context |-> context,
                app_key |-> KwArg(app_key, APP_KEY), encoding |-> encoding,
                headers |-> headers, status |-> status,
                result |-> render_template(template_name, requests[r], context,
                                          app_key, encoding, headers, status)]
    /\ UNCHANGED <<app, setupKeys, withProcessors, itemsInCtx, requests>>

\* the direct call returns (or raises) to its caller
CallReturn ==
    /\ call # None
    /\ call' = None
    /\ UNCHANGED <<app, setupKeys, withProcessors, itemsInCtx, requests>>

Init ==
    /\ app = [attrs |-> [n \in AttrNames |-> Absent], request_middleware |-> <<>>]
    /\ setupKeys = <<>>
    /\ withProcessors = <<>>
    /\ itemsInCtx \in BOOLEAN
    /\ requests = [r \in Requests |-> NewRequest]
    /\ call = None

\* a direct call get_env(app, app_key=...)
GetEnvCall(app_key) ==
    /\ call = None
    /\ call' = [op |-> "get_env", app_key |-> KwArg(app_key, APP_KEY),
                result |-> get_env(app, KwArg(app_key, APP_KEY))]
    /\ UNCHANGED <<app, setupKeys, withProcessors, itemsInCtx, requests>>

(***************************************************************************)
(* Specifications.  Each runs the same steps on inputs of its own.         *)
(***************************************************************************)
\* processors sequences without a failing processor
QuietProcSeqs == {<<>>, <<"P1", "P2">>, <<"request_processor">>}
\* a function handler returning a mapping
PlainReturns == {Mapping(m) : m \in CallerMaps}

\* the decorator with its defaults: @template("greet.html")
GreetRoute == template("greet.html", Omitted, Omitted, Omitted, Omitted)

\* The request pipeline: any processors, requests side by side, a function
\* handler decorated with template("greet.html").
Next ==
    \/ \E ps \in ProcSeqs, l \in Loaders : SetupCall(APP_KEY, ps, l, None)
    \/ \E r \in Requests : StartRequest(r)
    \/ \E r \in Requests : context_processors_middleware(r)
    \/ \E r \in Requests :
           HandlerInvoke(r, GreetRoute, <<RequestArg(r)>>, EmptyMap)
    \/ \E r \in Requests, c \in PlainReturns : HandlerReturn(r, c)
    \/ CallReturn

Spec == Init /\ [][Next]_vars

\* The registry: setup under every key, with and without filters and
\* processors, and lookups.
RegistryNext ==
    \/ \E k \in AppKeys, ps \in {<<>>, <<"P1">>}, l \in Loaders, f \in FilterArgs :
           SetupCall(k, ps, l, f)
    \/ \E k \in AppKeyArgs : GetEnvCall(k)
    \/ CallReturn

RegistrySpec == Init /\ [][RegistryNext]_vars

\* The renderer: direct calls of render_string and render_template with a
\* request, before or after its middleware has run.
RenderNext ==
    \/ \E k \in AppKeys, ps \in QuietProcSeqs, l \in Loaders : SetupCall(k, ps, l, None)
    \/ StartRequest(1)
    \/ HookEnter(1)
    \/ ProcessorInvoke(1)
    \/ ProcessorReturn(1)
    \/ HookReturn(1)
    \/ \E t \in TemplateNames, c \in ContextArgs, k \in AppKeyArgs :
           RenderStringCall(1, t, c, k)
    \/ \E t \in TemplateNames, c \in ContextArgs, k \in AppKeyArgs,
          e \in EncodingArgs, h \in HeaderArgs, s \in StatusArgs :
           RenderTemplateCall(1, t, c, k, e, h, s)
    \/ CallReturn

RenderSpec == Init /\ [][RenderNext]_vars

\* The decorator: every argument of template(...), both handler
\* conventions, every kind of return value.
DecoratorNext ==
    \/ \E k \in AppKeys, ps \in QuietProcSeqs, l \in Loaders : SetupCall(k, ps, l, None)
    \/ StartRequest(1)
    \/ HookEnter(1)
    \/ ProcessorInvoke(1)
    \/ ProcessorReturn(1)
    \/ HookReturn(1)
    \/ \E rt \in Routes, args \in HandlerArgs(1), kw \in HandlerKwargs :
           HandlerInvoke(1, rt, args, kw)
    \/ \E c \in ReturnValues : HandlerReturn(1, c)
    \/ CallReturn

DecoratorSpec == Init /\ [][DecoratorNext]_vars

(***************************************************************************)
(* Properties.                                                             *)
(***************************************************************************)
\* mappings the witnesses name
FoldP1P2 == ("a" :> 1 @@ "b" :> 3 @@ "c" :> 4)
FoldP2P1 == ("a" :> 1 @@ "b" :> 2 @@ "c" :> 4)
FoldP1P2UnderBZ == ("a" :> 1 @@ "b" :> 9 @@ "c" :> 4 @@ "z" :> 3)

\* the processors registered on the application, in registration order
Registered ==
    IF hasattr(app, APP_CONTEXT_PROCESSORS_KEY)
    THEN app.attrs[APP_CONTEXT_PROCESSORS_KEY].procs ELSE <<>>

\* the per-request context the hook keeps on a request
PerRequestContext(r) == IF itemsInCtx THEN requests[r].ctx ELSE requests[r].item

\* a run of the hook on r has returned and none is under way or has failed
HookCompleted(r) ==
    /\ requests[r].mw > 1
    /\ requests[r].pc = "none"
    /\ requests[r].result.kind # "ProcessorError"

\* the keys any of the processors returns for r
FoldKeys(procs, r) ==
    UNION {DOMAIN ProcessorOutput(procs[i], r) : i \in 1..Len(procs)}

\* the last processor in the order that returns key k
LastWith(procs, r, k) ==
    CHOOSE i \in 1..Len(procs) :
        /\ k \in DOMAIN ProcessorOutput(procs[i], r)
        /\ \A j \in (i + 1)..Len(procs) : k \notin DOMAIN ProcessorOutput(procs[j], r)

\* the left-to-right fold: every key of any processor, the later one's value
FoldInOrder(procs, r) ==
    [k \in FoldKeys(procs, r) |-> ProcessorOutput(procs[LastWith(procs, r, k)], r)[k]]

\* C1: once the hook has run to completion on a request, the per-request
\* context is the fold of the registered processors' mappings in
\* registration order, the later processor winning a key both return.
C1_HookFoldsInOrder ==
    \A r \in Requests :
        HookCompleted(r) =>
            /\ PerRequestContext(r).present
            /\ PerRequestContext(r).map = FoldInOrder(Registered, r)

\* C1: P1 then P2 were registered and the hook completed with {a:1,b:3,c:4}
C1_Witness ==
    \E r \in Requests :
        /\ HookCompleted(r)
        /\ Registered = <<"P1", "P2">>
        /\ PerRequestContext(r).map = FoldP1P2

\* the errors of the renderer, each a ServerError with status 500
EngineNotInitialized ==
    ServerError("Template engine has not been initialized yet.", "", 500)
TemplateNotFound(template_name) ==
    ServerError("Template '{}' not found", template_name, 500)
InvalidContext(context) ==
    ServerError("context should be mapping, not {}", context.kind, 500)

\* an environment is registered under key k, and it resolves name t
EnvRegistered(k) == hasattr(app, k)
Resolves(k, t) == EnvRegistered(k) /\ t \in app.attrs[k].templates

\* m holds every key of p or c, c's value for c's keys, p's for the others
Overrides(m, p, c) ==
    /\ DOMAIN m = (DOMAIN p) \cup (DOMAIN c)
    /\ \A k \in DOMAIN c : m[k] = c[k]
    /\ \A k \in (DOMAIN p) \ (DOMAIN c) : m[k] = p[k]

RenderStringCalled == call # None /\ call.op = "render_string"
RenderTemplateCalled == call # None /\ call.op = "render_template"

\* C2: when render_string renders for a request that carries a per-request
\* context P, the context the template is rendered with is P overridden by
\* the caller's mapping C.
C2_CallerOverridesPerRequest ==
    (/\ RenderStringCalled
     /\ call.result.kind = "text"
     /\ GetCtx(requests[call.request]).present)
    => Overrides(call.result.context,
                 GetCtx(requests[call.request]).map, call.context.map)

\* C2: P = {a:1,b:3,c:4} and C = {b:9,z:3} rendered as {a:1,b:9,c:4,z:3}
C2_Witness ==
    /\ RenderStringCalled
    /\ GetCtx(requests[call.request]).present
    /\ GetCtx(requests[call.request]).map = FoldP1P2
    /\ call.context = Mapping(CallerBZ)
    /\ call.result.kind = "text"
    /\ call.result.context = FoldP1P2UnderBZ

\* the decorated handler of r has returned a response
Responded(r) == requests[r].phase = "responded"
\* the decorated handler of r has returned or raised
HandlerDone(r) ==
    requests[r].phase \in {"responded", "failed"} /\ requests[r].route # None

\* C3: for a request on which the hook has completed, a decorated function
\* handler returning mapping C yields a response whose body is the render of
\* the template with C merged over the per-request context the hook stored.
C3_HookContextReachesTemplate ==
    \A r \in Requests :
        (Responded(r) /\ HookCompleted(r) /\ IsMapping(requests[r].returned))
        => /\ requests[r].result.body.template = requests[r].route.template_name
           /\ Overrides(requests[r].result.body.context,
                        PerRequestContext(r).map, requests[r].returned.map)

\* the setup calls made with key k, by number
SetupsWith(k) == {i \in 1..Len(setupKeys) : setupKeys[i] = k}
\* the first of them
FirstSetup(k) == CHOOSE i \in SetupsWith(k) : \A j \in SetupsWith(k) : i <= j

GetEnvCalled == call # None /\ call.op = "get_env"

\* C4: after any setup calls, get_env with key K returns the environment the
\* first setup call with key K created, never that of a later call.
C4_FirstSetupStays ==
    /\ \A k \in AppKeys :
           SetupsWith(k) # {} =>
               /\ get_env(app, k).kind = "env"
               /\ get_env(app, k).id = FirstSetup(k)
    /\ (GetEnvCalled /\ SetupsWith(call.app_key) # {}) =>
           /\ call.result.kind = "env"
           /\ call.result.id = FirstSetup(call.app_key)

\* C4: setup was called twice with one key and get_env returned the first
\* environment
C4_Witness ==
    /\ GetEnvCalled
    /\ Cardinality(SetupsWith(call.app_key)) >= 2
    /\ call.result.kind = "env"
    /\ call.result.id = FirstSetup(call.app_key)
    /\ call.result.id < Len(setupKeys)

\* C5: when the handler returns a built response, the decorated handler
\* returns that very response, whatever the registry and the template name.
C5_ResponsePassesThrough ==
    \A r \in Requests :
        (HandlerDone(r) /\ requests[r].returned.kind = "HTTPResponse")
        => /\ Responded(r)
           /\ requests[r].result = requests[r].returned

\* C5: a built response passed through although no environment is
\* registered under the decorator's key
C5_Witness ==
    \E r \in Requests :
        /\ Responded(r)
        /\ requests[r].returned = HandlerResponse
        /\ requests[r].result = HandlerResponse
        /\ ~EnvRegistered(requests[r].route.app_key)

\* C6: with no environment registered under the key, render_string raises
\* EngineNotInitialized (status 500), whatever the name and the context.
C6_NoEngine ==
    (RenderStringCalled /\ ~EnvRegistered(call.app_key))
    => call.result = EngineNotInitialized

\* C6: raised for a context that is no mapping, with no environment at all
C6_Witness ==
    /\ RenderStringCalled
    /\ ~EnvRegistered(call.app_key)
    /\ ~IsMapping(call.context)
    /\ call.result = EngineNotInitialized
    /\ call.result.status_code = 500

\* C7 as stated: a context that is no mapping makes render_string raise
\* InvalidContext whatever the environment and the template.
C7_InvalidContextAlways ==
    (RenderStringCalled /\ ~IsMapping(call.context))
    => call.result = InvalidContext(call.context)

\* C7 amended: a context that is no mapping makes render_string raise
\* InvalidContext when an environment is registered under the key and it
\* resolves the template name; otherwise the error of the failed lookup is
\* raised.
C7_InvalidContextAfterLookups ==
    (RenderStringCalled /\ ~IsMapping(call.context))
    => call.result =
          IF ~EnvRegistered(call.app_key) THEN EngineNotInitialized
          ELSE IF ~Resolves(call.app_key, call.template_name)
               THEN TemplateNotFound(call.template_name)
          ELSE InvalidContext(call.context)

\* C7: InvalidContext raised, with the environment and the template there
C7_Witness ==
    /\ RenderStringCalled
    /\ ~IsMapping(call.context)
    /\ Resolves(call.app_key, call.template_name)
    /\ call.result = InvalidContext(call.context)
    /\ call.result.status_code = 500

\* C8: with an environment registered under the key and a name it cannot
\* resolve, render_string raises TemplateNotFound (status 500), whatever
\* the context.
C8_UnknownTemplate ==
    (/\ RenderStringCalled
     /\ EnvRegistered(call.app_key)
     /\ ~Resolves(call.app_key, call.template_name))
    => call.result = TemplateNotFound(call.template_name)

\* C8: raised for a context that is no mapping
C8_Witness ==
    /\ RenderStringCalled
    /\ EnvRegistered(call.app_key)
    /\ ~Resolves(call.app_key, call.template_name)
    /\ ~IsMapping(call.context)
    /\ call.result = TemplateNotFound(call.template_name)
    /\ call.result.status_code = 500

\* C9: a handler decorated with template(name, status=S, headers=H) that
\* returns a mapping yields a response with status S and headers H.
C9_DecoratorStatusAndHeaders ==
    \A r \in Requests :
        (Responded(r) /\ IsMapping(requests[r].returned))
        => /\ requests[r].result.status = requests[r].route.status
           /\ requests[r].result.headers = requests[r].route.headers

\* what render_template is to return for the context it hands to
\* render_string
ResponseFor(ctx) ==
    LET text == render_string(call.template_name, requests[call.request], ctx,
                             Given(call.app_key))
    IN IF text.kind = "text"
       THEN HTTPResponse(text,
                         IF call.status.given THEN call.status.value ELSE 200,
                         IF call.headers.given THEN call.headers.value ELSE None,
                         <<"text/html; charset=",
                           IF call.encoding.given THEN call.encoding.value
                           ELSE "utf-8">>)
       ELSE text

\* C10 as stated: render_template returns the response built from the text
\* render_string returns for the same context, and fails with render_string's
\* error whenever render_string fails for it.
C10_SameAsRenderString ==
    RenderTemplateCalled => call.result = ResponseFor(call.context)

\* C10 amended: the same, for the context render_template hands on, which is
\* the supplied context except that None is replaced by the empty mapping.
C10_SameAsRenderStringNoneAsEmpty ==
    RenderTemplateCalled =>
        call.result = ResponseFor(IF call.context = None THEN Mapping(EmptyMap)
                                  ELSE call.context)

\* C10: a response with a supplied status, headers and encoding
C10_Witness ==
    /\ RenderTemplateCalled
    /\ call.status = Given(404)
    /\ call.headers.given
    /\ call.encoding = Given("latin-1")
    /\ call.result.kind = "HTTPResponse"
    /\ call.result.status = 404
    /\ call.result.headers = call.headers.value
    /\ call.result.content_type = <<"text/html; charset=", "latin-1">>
    /\ call.result.body.context = FoldP1P2UnderBZ

\* the processors invoked by the latest run of the hook on r, in call order
InvokedProcs(r) ==
    [i \in 1..Len(requests[r].invoked) |-> requests[r].invoked[i].processor]

\* the wrapped handler of r has been called
HandlerBegan(r) == requests[r].called # None

\* invocation i of the latest run of the hook on r has raised
Raised(r, i) ==
    /\ ProcessorRaises(requests[r].invoked[i].processor)
    /\ i < Len(requests[r].invoked) \/ requests[r].pc # "awaiting"

\* C11: the handler of a request begins only when every run of the hook on
\* that request has returned, all registered processors having been invoked;
\* when a processor raises, no further processor is invoked, the request ends
\* with that processor's failure and its handler is never called.
C11_HandlerAfterHook ==
    \A r \in Requests :
        /\ HandlerBegan(r) =>
               /\ requests[r].pc = "none"
               /\ requests[r].mw = Len(app.request_middleware) + 1
               /\ Registered # <<>> =>
                      /\ InvokedProcs(r) = Registered
                      /\ PerRequestContext(r).present
        /\ \A i \in 1..Len(requests[r].invoked) :
               Raised(r, i) =>
                   /\ i = Len(requests[r].invoked)
                   /\ requests[r].phase = "failed"
                   /\ requests[r].result =
                          [kind |-> "ProcessorError",
                           processor |-> requests[r].invoked[i].processor]
                   /\ ~HandlerBegan(r)

\* C11: the failing processor was registered before P1; the hook ended with
\* its failure, P1 was not invoked and the handler was not called
C11_Witness ==
    \E r \in Requests :
        /\ Registered = <<"failing_processor", "P1">>
        /\ InvokedProcs(r) = <<"failing_processor">>
        /\ requests[r].result.kind = "ProcessorError"
        /\ requests[r].phase = "failed"
        /\ ~HandlerBegan(r)

\* the number of processors that have returned in the latest run of the hook
ReturnedCount(r) ==
    LET n == Len(requests[r].invoked)
    IN IF n > 0 /\ (requests[r].pc = "awaiting" \/ Raised(r, n)) THEN n - 1 ELSE n

\* C12 as claimed: in every reachable state a per-request context that is
\* present is the merge of the outputs of all registered processors.
C12_NeverPartiallyPopulated ==
    \A r \in Requests :
        PerRequestContext(r).present =>
            PerRequestContext(r).map = FoldInOrder(Registered, r)

\* C12: a per-request context that is present is the fold of the outputs of
\* the processors that have returned in the latest run of the hook, a prefix
\* of the registered ones; it is the merge of all of them once that run has
\* returned.
C12_PopulatedStepwise ==
    \A r \in Requests :
        PerRequestContext(r).present =>
            /\ Len(requests[r].invoked) <= Len(Registered)
            /\ InvokedProcs(r) = SubSeq(Registered, 1, Len(requests[r].invoked))
            /\ PerRequestContext(r).map =
                   FoldInOrder(SubSeq(Registered, 1, ReturnedCount(r)), r)
            /\ (requests[r].pc = "none" /\ requests[r].result.kind # "ProcessorError")
                   => ReturnedCount(r) = Len(Registered)

\* C12: the hook is suspended awaiting P2 and the context holds P1's mapping
C12_Witness ==
    \E r \in Requests :
        /\ Registered = <<"P1", "P2">>
        /\ requests[r].pc = "awaiting"
        /\ requests[r].idx = 2
        /\ PerRequestContext(r).map = P1Output

\* C13: with requests in flight side by side, a step changes the state of
\* one request only, so no step of one request's hook changes the context
\* of another; and the context a request has once its hook has returned is
\* the fold of the registered processors' outputs for that request alone,
\* whatever the steps of the other request in between.
C13_RequestsIsolated ==
    [][/\ \A r \in Requests :
              requests'[r] # requests[r] =>
                  \A q \in Requests \ {r} : requests'[q] = requests[q]
       /\ \A r \in Requests :
              HookCompleted(r)' =>
                  /\ PerRequestContext(r)'.present
                  /\ PerRequestContext(r)'.map = FoldInOrder(Registered', r)
      ]_vars

\* C13: both requests are suspended in the hook at once, each with the
\* mapping request_processor returned for it
C13_Witness ==
    /\ Registered = <<"request_processor", "P1">>
    /\ \A r \in Requests :
           /\ requests[r].pc = "awaiting"
           /\ requests[r].idx = 2
           /\ PerRequestContext(r).map = ("request" :> r)

\* C14: render_string called for a request that carries no per-request
\* context, with a registered environment, a template name it resolves and
\* a mapping context, does not fail: its result is the render of that
\* template with exactly the caller's context.
C14_NoPerRequestContext ==
    (/\ RenderStringCalled
     /\ ~PerRequestContext(call.request).present
     /\ Resolves(call.app_key, call.template_name)
     /\ IsMapping(call.context))
        => call.result = TemplateRender(get_env(app, call.app_key),
                                        call.template_name, call.context.map)

\* C14: no processors were installed; greet.html was rendered with {b:9,z:3}
C14_Witness ==
    /\ RenderStringCalled
    /\ app.request_middleware = <<>>
    /\ ~PerRequestContext(call.request).present
    /\ call.context = Mapping(CallerBZ)
    /\ call.result.kind = "text"
    /\ call.result.context = CallerBZ

SetupCalled == call # None /\ call.op = "setup"

\* C15: a setup call with key K1 leaves what get_env returns for every other
\* key K2 as it was, neither creating nor replacing an environment there;
\* and get_env with a key no setup call was made with returns None, not an
\* error.
C15_KeysIndependent ==
    /\ [][(call = None /\ SetupCalled') =>
              \A k2 \in AppKeys \ {call'.app_key} :
                  get_env(app', k2) = get_env(app, k2)
         ]_vars
    /\ [](/\ \A k \in AppKeys : SetupsWith(k) = {} => get_env(app, k) = None
          /\ (GetEnvCalled /\ SetupsWith(call.app_key) = {}) => call.result = None)

\* C15: setup was called with the default key, then with the second key;
\* each key has the environment of its own call
C15_Witness ==
    /\ SetupCalled
    /\ call.app_key = "second_environment"
    /\ setupKeys = <<APP_KEY, "second_environment">>
    /\ get_env(app, APP_KEY).id = 1
    /\ get_env(app, "second_environment").id = 2

\* C16: the request handed to render_template is the second positional
\* argument when the first is a class-based view instance, the first
\* otherwise, and the wrapped handler is called with the positional and
\* keyword arguments the decorated handler was called with.
C16_RequestSelected ==
    \A r \in Requests :
        HandlerDone(r) =>
            /\ requests[r].called =
                   [args |-> requests[r].args, kwargs |-> requests[r].kwargs]
            /\ requests[r].returned.kind # "HTTPResponse" =>
                   /\ requests[r].handed =
                          IF requests[r].args[1].kind = "HTTPMethodView"
                          THEN requests[r].args[2] ELSE requests[r].args[1]
                   /\ requests[r].handed = RequestArg(r)
                   /\ requests[r].result.kind # "AttributeError"

\* C16: a method of a class-based view, called with a route parameter,
\* returned a mapping; the response was rendered for the request that came
\* second
C16_Witness ==
    \E r \in Requests :
        /\ Responded(r)
        /\ requests[r].args = <<View, RequestArg(r)>>
        /\ requests[r].called.kwargs = ("name" :> 5)
        /\ requests[r].returned.kind = "mapping"
        /\ requests[r].handed = RequestArg(r)

\* no setup call so far was given context processors
NoProcessorsGiven == \A i \in 1..Len(withProcessors) : ~withProcessors[i]

\* C17: as long as every setup call was made with an empty
\* context_processors sequence, the hook is in no middleware pipeline, no
\* processor sequence is stored on the application, and no request carries
\* a per-request context, whatever stage it has reached.
C17_NoProcessorsNoHook ==
    NoProcessorsGiven =>
        /\ app.request_middleware = <<>>
        /\ ~hasattr(app, APP_CONTEXT_PROCESSORS_KEY)
        /\ \A r \in Requests :
               /\ ~PerRequestContext(r).present
               /\ ~GetCtx(requests[r]).present
               /\ requests[r].invoked = <<>>

\* C17: setup was called twice without processors and a request was
\* answered by its handler
C17_Witness ==
    /\ Len(withProcessors) = 2
    /\ NoProcessorsGiven
    /\ \E r \in Requests : Responded(r) /\ ~PerRequestContext(r).present

\* C18: within a run of the hook the processors are invoked one after
\* another in registration order, each with the request as its only
\* argument: when processor i is invoked the mappings of the i-1 before it
\* have been folded into the context, and when the run has returned every
\* registered processor has been invoked exactly once.
C18_SequentialInOrder ==
    \A r \in Requests :
        /\ Len(requests[r].invoked) <= Len(Registered)
        /\ \A i \in 1..Len(requests[r].invoked) :
               requests[r].invoked[i] =
                   [processor |-> Registered[i], args |-> <<RequestArg(r)>>]
        /\ requests[r].pc = "awaiting" =>
               /\ Len(requests[r].invoked) = requests[r].idx
               /\ PerRequestContext(r).map =
                      FoldInOrder(SubSeq(Registered, 1, requests[r].idx - 1), r)
        /\ requests[r].pc = "loop" =>
               /\ Len(requests[r].invoked) = requests[r].idx - 1
               /\ PerRequestContext(r).map =
                      FoldInOrder(SubSeq(Registered, 1, requests[r].idx - 1), r)
        /\ HookCompleted(r) => Len(requests[r].invoked) = Len(Registered)

\* C18: P2 then P1 were registered; the run of the hook has returned with
\* P2 invoked first and P1 second, P1's value in the key both return
C18_Witness ==
    \E r \in Requests :
        /\ Registered = <<"P2", "P1">>
        /\ HookCompleted(r)
        /\ InvokedProcs(r) = <<"P2", "P1">>
        /\ PerRequestContext(r).map = FoldP2P1

\* C19: only a setup call changes the application: no step of the hook, of
\* render_string or of render_template changes the stored processor
\* sequence, a registered environment or the middleware pipeline.  A setup
\* call stores its processor sequence when it is the first call given a
\* non-empty one; otherwise it leaves the stored sequence as it is; and it
\* leaves every environment registered before as it is.
C19_WrittenOnlyBySetup ==
    [][IF call = None /\ SetupCalled'
       THEN /\ (NoProcessorsGiven /\ call'.context_processors # <<>>)
                   => /\ hasattr(app', APP_CONTEXT_PROCESSORS_KEY)
                      /\ Registered' = call'.context_processors
            /\ (NoProcessorsGiven /\ call'.context_processors = <<>>)
                   => ~hasattr(app', APP_CONTEXT_PROCESSORS_KEY)
            /\ ~NoProcessorsGiven
                   => app'.attrs[APP_CONTEXT_PROCESSORS_KEY]
                          = app.attrs[APP_CONTEXT_PROCESSORS_KEY]
            /\ \A k \in AppKeys : hasattr(app, k) => app'.attrs[k] = app.attrs[k]
       ELSE app' = app
      ]_vars

\* C19: P1, P2 were stored by the first setup call; a second call given
\* request_processor has left them in place
C19_Witness ==
    /\ SetupCalled
    /\ Len(setupKeys) = 2
    /\ withProcessors = <<TRUE, TRUE>>
    /\ call.context_processors = <<"request_processor">>
    /\ Registered = <<"P1", "P2">>

\* the number of setup calls given a non-empty processor sequence
SetupsWithProcessors ==
    Cardinality({i \in 1..Len(withProcessors) : withProcessors[i]})

\* the number of runs of the hook that have returned on r: the framework is
\* at middleware number mw of the pipeline
HookRuns(r) == IF requests[r].mw = 0 THEN 0 ELSE requests[r].mw - 1

\* C20: the hook is in the pipeline once per setup call given a non-empty
\* sequence; with n such calls the hook has run n times on a request when
\* its handler is called; every run starts from an empty context and folds
\* the stored sequence, so the context after any number of runs, and the
\* one the handler finds, is the fold of the stored sequence, as after one.
C20_HookRunsPerSetup ==
    /\ Len(app.request_middleware) = SetupsWithProcessors
    /\ \A r \in Requests :
           /\ HandlerBegan(r) => HookRuns(r) = SetupsWithProcessors
           /\ (requests[r].pc = "loop" /\ requests[r].idx = 1)
                  => PerRequestContext(r).map = EmptyMap
           /\ (HookRuns(r) >= 1 /\ requests[r].pc = "none"
                   /\ requests[r].result.kind # "ProcessorError")
                  => PerRequestContext(r).map = FoldInOrder(Registered, r)

\* C20: two setup calls were given processors; the hook ran twice on the
\* request and its handler found the fold of P1, P2
C20_Witness ==
    \E r \in Requests :
        /\ SetupsWithProcessors = 2
        /\ Registered = <<"P1", "P2">>
        /\ HandlerBegan(r)
        /\ HookRuns(r) = 2
        /\ PerRequestContext(r).map = FoldP1P2
====
